---- MODULE Spec2Model ----
(***************************************************************************)
(* Mount-lifecycle controller of one public volume (PublicVolume.cpp).     *)
(*                                                                         *)
(* The volume's fields are the variables m*, the owner's bookkeeping       *)
(* (VolumeBase: state, flags, paths) is vstate/mountFlags/path, and the    *)
(* operating system is mnts (what is mounted where), dirs (directories)    *)
(* and procs (un-reaped children).  Every external call a lifecycle call   *)
(* makes is appended to trace, which holds the calls of the latest         *)
(* lifecycle call only.  The outcome of every external call is drawn       *)
(* nondeterministically.                                                   *)
(***************************************************************************)
EXTENDS Integers, Sequences, FiniteSets, TLC

VARIABLES
    mJustPhysicalDev, id, mDevPath,
    mFsType, mFsUuid, mFsLabel,
    mRawPath, mFuseDefault, mFuseRead, mFuseWrite,
    mFusePid,
    path, internalPath, mountFlags, vstate,
    pc, before, stableName, faults,
    trace, lastOp, lastStatus, backend,
    procs, mnts, dirs

vars == <<mJustPhysicalDev, id, mDevPath, mFsType, mFsUuid, mFsLabel,
          mRawPath, mFuseDefault, mFuseRead, mFuseWrite, mFusePid,
          path, internalPath, mountFlags, vstate, pc, before, stableName, faults,
          trace, lastOp, lastStatus, backend, procs, mnts, dirs>>

ident == <<mJustPhysicalDev, id, mDevPath>>
meta == <<mFsType, mFsUuid, mFsLabel>>
paths == <<mRawPath, mFuseDefault, mFuseRead, mFuseWrite>>
ownerPaths == <<path, internalPath>>
os == <<procs, mnts, dirs>>

(***************************************************************************)
(* Bounds of the model.                                                    *)
(***************************************************************************)
\* external calls of one behaviour that do not take their ordinary course
\* (one prepareDir, one backend mount with its fallback, one initAsecStage
\* count as one call each)
MaxFaults == 1

(***************************************************************************)
(* Program constants.                                                      *)
(***************************************************************************)
OK == 0
EIO == 5
EINVAL == 22
ENOENT == 2
ENOTCONN == 107
EEXIST == 17
\* errno values of failures the code does not single out
EACCES == 13
ENOMEM == 12
EAGAIN == 11

kFusePath == "/system/bin/sdcard"
kAsecPath == "/mnt/secure/asec"

\* the device number the non-bare volume is constructed from
DevMajor == 8
DevMinor == 1
PhysicalDevNames == {"sda1"}

\* what a metadata probe can report
FsTypes == {"vfat", "ntfs", "exfat", "hfs", "ext4", ""}
FsUuids == {"", "1234-ABCD"}
FsLabels == {"DISK"}

\* one external call: its name, its first two arguments and its status (for a
\* system call that fails, minus the errno it sets)
Ev(op, a, b, res) == [op |-> op, a |-> a, b |-> b, res |-> res]

\* the calls of the latest lifecycle call with the given name
Calls(op) == {k \in 1..Len(trace) : trace[k].op = op}
CallsOn(op, a) == {k \in 1..Len(trace) : trace[k].op = op /\ trace[k].a = a}

\* how the filesystem backends answer for the device during a mount call:
\* the type's check, the type's mount and, for hfs, the iso9660 mount of the
\* same device, each "ok", "fail" or "unasked" (the iso9660 answer is also
\* drawn when the hfs+ check failed and iso9660 is never asked)
NoBackend == [check |-> "unasked", mount |-> "unasked", iso |-> "unasked"]
Answers == {"ok", "fail"}
StatusOf(answer) == IF answer = "ok" THEN 0 ELSE -1

(***************************************************************************)
(* The operating system: mnts is a set of <<path, device id>>, one per     *)
(* mounted path; dirs the directories that exist; procs the children that  *)
(* were forked and not yet reaped.                                         *)
(***************************************************************************)
Mounted(m, p) == \E e \in m : e[1] = p

\* GetDevice(path): the device id of what is visible at the path, 0 when it
\* is a plain directory of the parent filesystem
GetDevice(m, p) == IF Mounted(m, p) THEN (CHOOSE e \in m : e[1] = p)[2] ELSE 0

\* a new mount at p shows a device id different from the one visible before
NewDev(m, p) == IF GetDevice(m, p) = 1 THEN 2 ELSE 1

DoMountAt(m, p) == {e \in m : e[1] # p} \cup {<<p, NewDev(m, p)>>}
DoUmountAt(m, p) == {e \in m : e[1] # p}

(***************************************************************************)
(* A lifecycle call in progress: the fields it may write, the calls made   *)
(* so far (tr), errno, and its return status once it has returned (done).  *)
(***************************************************************************)
Cur ==
    [raw |-> mRawPath, fdef |-> mFuseDefault, fread |-> mFuseRead,
     fwrite |-> mFuseWrite, path |-> path, ipath |-> internalPath,
     pid |-> mFusePid, fsType |-> mFsType, fsUuid |-> mFsUuid,
     fsLabel |-> mFsLabel, tr |-> trace, errno |-> 0,
     mnts |-> mnts, dirs |-> dirs, procs |-> procs,
     done |-> FALSE, ret |-> OK]

\* a lifecycle call starts: the record of calls starts anew
Enter == [Cur EXCEPT !.tr = <<>>]

Log(s, e) == [s EXCEPT !.tr = Append(@, e)]
Return(s, status) == [s EXCEPT !.done = TRUE, !.ret = status]

(***************************************************************************)
(* readMetadata: the probe's answer (status r, type t, UUID u, label l) is *)
(* stored and three notifications are sent, whatever the status.           *)
(***************************************************************************)
\* a probe that notifies only when the read succeeded
ReadMetadata_QuietOnFailure(s, r, t, u, l) ==
    LET s1 == [s EXCEPT !.fsType = t, !.fsUuid = u, !.fsLabel = l]
        s2 == Log(s1, Ev("ReadMetadataUntrusted", mDevPath, "", r))
        s3 == Log(s2, Ev("notifyEvent", "VolumeFsTypeChanged", s1.fsType, 0))
        s4 == Log(s3, Ev("notifyEvent", "VolumeFsUuidChanged", s1.fsUuid, 0))
    IN  IF r # OK THEN s2
        ELSE Log(s4, Ev("notifyEvent", "VolumeFsLabelChanged", s1.fsLabel, 0))

ReadMetadata(s, r, t, u, l) ==
    LET s1 == [s EXCEPT !.fsType = t, !.fsUuid = u, !.fsLabel = l]
        s2 == Log(s1, Ev("ReadMetadataUntrusted", mDevPath, "", r))
        s3 == Log(s2, Ev("notifyEvent", "VolumeFsTypeChanged", s1.fsType, 0))
        s4 == Log(s3, Ev("notifyEvent", "VolumeFsUuidChanged", s1.fsUuid, 0))
    IN  Log(s4, Ev("notifyEvent", "VolumeFsLabelChanged", s1.fsLabel, 0))

\* a validation that lets ext4 through
Supported_WithExt4(t) ==
    t = "vfat" \/ t = "ntfs" \/ t = "exfat" \/ t = "hfs" \/ t = "ext4"

\* the filesystem types doMount accepts
Supported(t) == t = "vfat" \/ t = "ntfs" \/ t = "exfat" \/ t = "hfs"

\* the status doMount returns for an unsupported type
UnsupportedStatus == -EIO

\* the backend whose Check runs for the type
CheckBackend(t) ==
    IF t = "vfat" THEN "vfat::Check"
    ELSE IF t = "ntfs" THEN "ntfs::Check"
    ELSE IF t = "exfat" THEN "exfat::Check"
    ELSE "hfsplus::Check"

\* "Check filesystems": a non-zero check status returns -EIO
CheckFs(s, c) ==
    LET s1 == Log(s, Ev(CheckBackend(s.fsType), mDevPath, "", c))
    IN  IF c # 0 THEN Return(s1, -EIO) ELSE s1

\* a doMount that names every mount after the id
StableNameOf_IgnoresUuid(volId, uuid) == volId

\* "Use UUID as stable name, if available"
StableNameOf(volId, uuid) == IF uuid # "" THEN uuid ELSE volId

\* the external path of a mount: /storage/<stableName> when visible
ExternalPath(visible, sn, raw) == IF visible THEN "/storage/" \o sn ELSE raw

\* the four derived paths, setInternalPath and setPath
ComputePaths(s, sn, visible) ==
    LET raw == "/mnt/media_rw/" \o sn
        s1 == [s EXCEPT !.raw = raw,
                        !.fdef = "/mnt/runtime/default/" \o sn,
                        !.fread = "/mnt/runtime/read/" \o sn,
                        !.fwrite = "/mnt/runtime/write/" \o sn,
                        !.ipath = raw,
                        !.path = ExternalPath(visible, sn, raw)]
        s2 == Log(s1, Ev("setInternalPath", s1.ipath, "", 0))
    IN  Log(s2, Ev("setPath", s1.path, "", 0))

(***************************************************************************)
(* prepareDir.  o.first is the errno of the first fs_prepare_dir (0 when   *)
(* it succeeds), o.um the errno of umount2(path, MNT_DETACH), o.retry the  *)
(* errno of the second fs_prepare_dir.                                     *)
(***************************************************************************)
FsPrepareDir(s, p, e) ==
    LET s1 == Log(s, Ev("fs_prepare_dir", p, "", -e))
    IN  IF e = 0 THEN [s1 EXCEPT !.dirs = @ \cup {p}] ELSE [s1 EXCEPT !.errno = e]

Umount2Detach(s, p, e) ==
    LET s1 == Log(s, Ev("umount2", p, "MNT_DETACH", -e))
    IN  IF e = 0 THEN [s1 EXCEPT !.mnts = DoUmountAt(@, p)] ELSE [s1 EXCEPT !.errno = e]

\* a prepareDir that retries only after a umount2 that succeeded
UmountAllowsRetry_OnlySuccess(e) == e = 0

\* whether prepareDir goes on to the retry after the lazy umount
UmountAllowsRetry(e) == e = 0 \/ e = EINVAL \/ e = ENOENT

\* the result is the call state with ret = the status prepareDir returns
PrepareDir(s, p, o) ==
    LET s1 == FsPrepareDir(s, p, o.first)
    IN  IF o.first # 0
        THEN IF s1.errno = ENOTCONN
             THEN LET s2 == Umount2Detach(s1, p, o.um)
                  IN  IF UmountAllowsRetry(o.um)
                      THEN LET s3 == FsPrepareDir(s2, p, o.retry)
                           IN  IF o.retry # 0
                               THEN Log([s3 EXCEPT !.ret = -1], Ev("prepareDir", p, "", -1))
                               ELSE Log([s3 EXCEPT !.ret = OK], Ev("prepareDir", p, "", OK))
                      ELSE Log([s2 EXCEPT !.ret = -1], Ev("prepareDir", p, "", -1))
             ELSE Log([s1 EXCEPT !.ret = -1], Ev("prepareDir", p, "", -1))
        ELSE Log([s1 EXCEPT !.ret = OK], Ev("prepareDir", p, "", OK))

\* the outcomes one prepareDir call can meet
PrepOutcomes ==
    {[first |-> 0, um |-> 0, retry |-> 0], [first |-> EACCES, um |-> 0, retry |-> 0],
     [first |-> ENOTCONN, um |-> ENOMEM, retry |-> 0]}
    \cup {[first |-> ENOTCONN, um |-> u, retry |-> r] :
            u \in {0, EINVAL, ENOENT}, r \in {0, EACCES}}

PrepOk == [first |-> 0, um |-> 0, retry |-> 0]

\* the outcomes of the four prepareDir calls of one mount call, of which at
\* most n do not succeed at once
PrepOracles(n) ==
    UNION {{[k \in 1..4 |-> IF k \in K THEN f[k] ELSE PrepOk] :
                f \in [K -> PrepOutcomes \ {PrepOk}]} :
            K \in {K \in SUBSET (1..4) : Cardinality(K) <= n}}

\* the prepareDir calls of the chain that ran and did not succeed at once
PrepFaults(po) ==
    LET fatal(k) == po[k].first # 0 /\ ~(po[k].first = ENOTCONN /\ po[k].retry = 0
                                          /\ po[k].um \in {0, EINVAL, ENOENT})
        ran == {k \in 1..4 : \A j \in 1..(k - 1) : ~fatal(j)}
    IN  Cardinality({k \in ran : po[k].first # 0})

\* prepareDir(mRawPath) || prepareDir(mFuseDefault) || prepareDir(mFuseRead)
\* || prepareDir(mFuseWrite): the first failure ends the chain, -errno
PrepareDirs(s, po) ==
    LET s1 == PrepareDir(s, s.raw, po[1])
        s2 == IF s1.ret # OK THEN s1 ELSE PrepareDir(s1, s.fdef, po[2])
        s3 == IF s2.ret # OK THEN s2 ELSE PrepareDir(s2, s.fread, po[3])
        s4 == IF s3.ret # OK THEN s3 ELSE PrepareDir(s3, s.fwrite, po[4])
    IN  IF s4.ret # OK THEN Return(s4, -s4.errno) ELSE s4

(***************************************************************************)
(* "Mount device".                                                         *)
(***************************************************************************)
\* what GetLogicalPartitionDevice resolves the device to
LogicalPartitionDevice == "/dev/block/logical"

\* a doMount that resolves the logical partition of a bare device too
NeedsLogicalPartition_IgnoresBare(bare, t) == t = "ntfs" \/ t = "exfat"

\* whether doMount resolves the logical partition device first
NeedsLogicalPartition(bare, t) == (~bare) /\ (t = "ntfs" \/ t = "exfat")

\* e is the errno of GetLogicalPartitionDevice, 0 when it resolves
ResolveDevice(s, e) ==
    LET s1 == Log(s, Ev("GetLogicalPartitionDevice", mDevPath, "", IF e = 0 THEN OK ELSE -1))
    IN  IF e # 0 THEN Return([s1 EXCEPT !.errno = e], -e) ELSE s1

\* one backend Mount call of device dev on the raw path, status m
BackendMount(s, backendName, dev, m) ==
    LET s1 == Log(s, Ev(backendName, dev, s.raw, m))
    IN  IF m = 0 THEN [s1 EXCEPT !.mnts = DoMountAt(@, s.raw)] ELSE s1

\* a doMount without the iso9660 fallback, and one that always tries it
IsoFallback_Never(m) == FALSE
IsoFallback_Always(m) == TRUE

\* whether the iso9660 mount is tried after the hfs+ mount returned m
IsoFallback(m) == m # 0

\* the mount of the type: the call state after it, with ret = mountStatus;
\* m is the status of the type's own Mount, iso of iso9660::Mount
MountFs(s, logicPartDevPath, m, iso) ==
    IF s.fsType = "vfat"
    THEN [BackendMount(s, "vfat::Mount", mDevPath, m) EXCEPT !.ret = m]
    ELSE IF s.fsType = "ntfs"
    THEN [BackendMount(s, "ntfs::Mount", logicPartDevPath, m) EXCEPT !.ret = m]
    ELSE IF s.fsType = "exfat"
    THEN [BackendMount(s, "exfat::Mount", logicPartDevPath, m) EXCEPT !.ret = m]
    ELSE IF s.fsType = "hfs"
    THEN LET s1 == BackendMount(s, "hfsplus::Mount", mDevPath, m)
         IN  IF IsoFallback(m)
             THEN [BackendMount(s1, "iso9660::Mount", mDevPath, iso) EXCEPT !.ret = iso]
             ELSE [s1 EXCEPT !.ret = m]
    ELSE [s EXCEPT !.ret = -1]

\* the status doMount returns for a failed check and a failed final mount
IoFailure == -EIO

\* a doMount that goes on after a failed mount of the device
MountStatusCheck_Ignored(s) == s

\* "if (mountStatus) return -EIO"
MountStatusCheck(s) == IF s.ret # 0 THEN Return(s, -EIO) ELSE s

(***************************************************************************)
(* initAsecStage.  o says whether the legacy and the secure directory are  *)
(* accessible and gives the status of rename, the errno of mkdir and the   *)
(* status of BindMount.  The result has ret = the status it returns.       *)
(***************************************************************************)
InitAsecStage(s, o) ==
    LET legacyPath == s.raw \o "/android_secure"
        securePath == s.raw \o "/.android_secure"
        s1 == Log(s, Ev("access", legacyPath, "", IF o.legacy THEN 0 ELSE -1))
        s2 == IF o.legacy
              THEN Log(s1, Ev("access", securePath, "", IF o.secure THEN 0 ELSE -1))
              ELSE s1
        s3 == IF o.legacy /\ ~o.secure
              THEN Log(s2, Ev("rename", legacyPath, securePath, o.rename))
              ELSE s2
        s4 == Log(s3, Ev("mkdir", securePath, "", IF o.mkdir = 0 THEN 0 ELSE -1))
    IN  IF o.mkdir # 0 /\ o.mkdir # EEXIST
        THEN [s4 EXCEPT !.errno = o.mkdir, !.ret = -o.mkdir]
        ELSE LET s5 == Log(s4, Ev("BindMount", securePath, kAsecPath, o.bind))
                 s6 == IF o.bind = 0 THEN [s5 EXCEPT !.mnts = DoMountAt(@, kAsecPath)] ELSE s5
             IN  [s6 EXCEPT !.ret = OK]

\* the outcomes initAsecStage can meet
AsecOracles ==
    {o \in [legacy : BOOLEAN, secure : BOOLEAN, rename : {0, -1},
            mkdir : {0, EEXIST, EACCES}, bind : {0, -1}] :
        /\ (~o.legacy) => ~o.secure
        /\ (~(o.legacy /\ ~o.secure)) => o.rename = 0
        /\ o.secure => o.mkdir = EEXIST
        /\ (o.legacy /\ ~o.secure /\ o.rename = 0) => o.mkdir = EEXIST
        /\ (o.legacy /\ ~o.secure /\ o.rename # 0) => o.mkdir # EEXIST
        /\ o.mkdir = EACCES => o.bind = 0}

AsecFault(o) == o.rename # 0 \/ o.mkdir = EACCES \/ o.bind # 0

\* "if (getMountFlags() & MountFlags::kPrimary) initAsecStage();"
StageAsec(s, primary, o) ==
    IF primary THEN [InitAsecStage(s, o) EXCEPT !.ret = s.ret, !.errno = s.errno] ELSE s

(***************************************************************************)
(* The sandbox child.                                                      *)
(***************************************************************************)
NewPid(ps) == CHOOSE n \in 1..(Cardinality(ps) + 1) : \A c \in ps : c.pid # n

\* a doMount that spins up the sandbox of a volume that is not visible too
SpinsUpFuse_Always(flags) == TRUE

\* "if (!(getMountFlags() & MountFlags::kVisible)) return OK": whether doMount
\* goes on to the sandbox
SpinsUpFuse(flags) == flags.visible

\* a child that is never given -w
FuseArgv_NeverWritable(primary, raw, sn) ==
    <<kFusePath, "-u", "1023", "-g", "1023", "-U", "userId", raw, sn>>

\* the arguments of execl in the child
FuseArgv(primary, raw, sn) ==
    IF primary
    THEN <<kFusePath, "-u", "1023", "-g", "1023", "-U", "userId", "-w", raw, sn>>
    ELSE <<kFusePath, "-u", "1023", "-g", "1023", "-U", "userId", raw, sn>>

\* "dev_t before = GetDevice(mFuseWrite)"
ReadBaseline(s) == Log(s, Ev("GetDevice", s.fwrite, "", GetDevice(s.mnts, s.fwrite)))

\* "mFusePid = fork()" in the parent: e is the errno of fork, 0 when a
\* child was made; a failed fork returns -errno
Fork(s, primary, sn, e) ==
    IF e # 0
    THEN Return(Log([s EXCEPT !.pid = -1, !.errno = e], Ev("fork", "", "", -1)), -e)
    ELSE LET p == NewPid(s.procs)
             s1 == [s EXCEPT !.pid = p,
                             !.procs = @ \cup {[pid |-> p, st |-> "forked",
                                                argv |-> FuseArgv(primary, s.raw, sn)]}]
         IN  Log(s1, Ev("fork", "", "", p))

(***************************************************************************)
(* doUnmount.                                                              *)
(***************************************************************************)
\* "if (mFusePid > 0) { kill; waitpid; mFusePid = 0; }": k and w are the
\* statuses of kill and waitpid
\* (after waitpid returned, with either status, the child is no longer an
\* un-reaped child of this process; KillSandbox_NoWait is a doUnmount that
\* does not wait for the child)
KillSandbox_NoWait(s, k, w) ==
    IF s.pid > 0
    THEN [Log(s, Ev("kill", ToString(s.pid), "SIGTERM", k)) EXCEPT !.pid = 0]
    ELSE s

KillSandbox(s, k, w) ==
    IF s.pid > 0
    THEN LET s1 == Log(s, Ev("kill", ToString(s.pid), "SIGTERM", k))
             s2 == Log(s1, Ev("waitpid", ToString(s.pid), "", w))
         IN  [s2 EXCEPT !.procs = {c \in @ : c.pid # s.pid}, !.pid = 0]
    ELSE s

\* ForceUnmount(path): fails when the path is among the stuck ones
ForceUnmount(s, p, stuck) ==
    IF p \in stuck /\ Mounted(s.mnts, p)
    THEN Log(s, Ev("ForceUnmount", p, "", -1))
    ELSE Log([s EXCEPT !.mnts = DoUmountAt(@, p)], Ev("ForceUnmount", p, "", 0))

\* rmdir(path): removes an existing directory nothing is mounted on
Rmdir(s, p) ==
    IF p \in s.dirs /\ ~Mounted(s.mnts, p)
    THEN Log([s EXCEPT !.dirs = @ \ {p}], Ev("rmdir", p, "", 0))
    ELSE Log(s, Ev("rmdir", p, "", -1))

\* the four clear() calls at the end of doUnmount
ClearPaths(s) == [s EXCEPT !.fdef = "", !.fread = "", !.fwrite = "", !.raw = ""]

\* a teardown that unmounts the raw path before the views on top of it
UnmountAll_RawFirst(s, stuck) ==
    LET s1 == ForceUnmount(s, kAsecPath, stuck)
        s2 == ForceUnmount(s1, s.raw, stuck)
        s3 == ForceUnmount(s2, s.fdef, stuck)
        s4 == ForceUnmount(s3, s.fread, stuck)
    IN  ForceUnmount(s4, s.fwrite, stuck)

\* the force-unmounts of doUnmount, in order
UnmountAll(s, stuck) ==
    LET s1 == ForceUnmount(s, kAsecPath, stuck)
        s2 == ForceUnmount(s1, s.fdef, stuck)
        s3 == ForceUnmount(s2, s.fread, stuck)
        s4 == ForceUnmount(s3, s.fwrite, stuck)
    IN  ForceUnmount(s4, s.raw, stuck)

\* the directory removals of doUnmount, in order
RemoveAll(s) ==
    LET s1 == Rmdir(s, s.fdef)
        s2 == Rmdir(s1, s.fread)
        s3 == Rmdir(s2, s.fwrite)
    IN  Rmdir(s3, s.raw)

\* doUnmount as built without HAS_VIRTUAL_CDROM (the loop-device hook of
\* lines 258-266 is compiled out)
DoUnmountBody(s, k, w, stuck) ==
    LET s1 == KillSandbox(s, k, w)
        s2 == UnmountAll(s1, stuck)
        s3 == RemoveAll(s2)
        s4 == ClearPaths(s3)
    IN  Return(s4, OK)

\* the force-unmounts of one doUnmount call that can fail, at most n of them
StuckSets(s, n) ==
    {st \in SUBSET {p \in {kAsecPath, s.fdef, s.fread, s.fwrite, s.raw} : Mounted(s.mnts, p)} :
        Cardinality(st) <= n}

(***************************************************************************)
(* doCreate and doDestroy: r is the status of the device-node call.        *)
(***************************************************************************)
DoCreateBody(s, r) ==
    IF mJustPhysicalDev THEN Return(s, 0)
    ELSE Return(Log(s, Ev("CreateDeviceNode", mDevPath, "", r)), r)

\* a doDestroy that does not look at mJustPhysicalDev
DoDestroyBody_AlwaysNode(s, r) ==
    Return(Log(s, Ev("DestroyDeviceNode", mDevPath, "", r)), r)

DoDestroyBody(s, r) ==
    IF mJustPhysicalDev THEN Return(s, 0)
    ELSE Return(Log(s, Ev("DestroyDeviceNode", mDevPath, "", r)), r)

(***************************************************************************)
(* doFormat(fsType): w is the status of WipeBlockDevice, e the errno of    *)
(* vfat::Format (0 when it succeeds).  The request and the status returned *)
(* are recorded after the external calls.                                  *)
(***************************************************************************)
\* the types a format can be requested with
FormatTypes == {"vfat", "auto", "ntfs"}

\* a doFormat that gives up when the wipe fails
DoFormatBody_WipeAborts(s, fsType, w, e) ==
    IF fsType = "vfat" \/ fsType = "auto"
    THEN LET s1 == Log(s, Ev("WipeBlockDevice", mDevPath, "", w))
             s2 == Log(s1, Ev("vfat::Format", mDevPath, "0", IF e = 0 THEN 0 ELSE -1))
         IN  IF w # OK THEN Return(Log(s1, Ev("doFormat", fsType, "", w)), w)
             ELSE IF e # 0
             THEN Return(Log([s2 EXCEPT !.errno = e], Ev("doFormat", fsType, "", -e)), -e)
             ELSE Return(Log(s2, Ev("doFormat", fsType, "", OK)), OK)
    ELSE Return(Log(s, Ev("doFormat", fsType, "", -EINVAL)), -EINVAL)

DoFormatBody(s, fsType, w, e) ==
    IF fsType = "vfat" \/ fsType = "auto"
    THEN LET s1 == Log(s, Ev("WipeBlockDevice", mDevPath, "", w))
             s2 == Log(s1, Ev("vfat::Format", mDevPath, "0", IF e = 0 THEN 0 ELSE -1))
         IN  IF e # 0
             THEN Return(Log([s2 EXCEPT !.errno = e], Ev("doFormat", fsType, "", -e)), -e)
             ELSE Return(Log(s2, Ev("doFormat", fsType, "", OK)), OK)
    ELSE Return(Log(s, Ev("doFormat", fsType, "", -EINVAL)), -EINVAL)

\* the outcomes wipe and format can meet together: the status of the wipe
\* and the errno of the format
FormatOutcomes(n) ==
    {<<OK, 0>>} \cup (IF n > 0 THEN {<<-1, 0>>, <<OK, EIO>>, <<-1, EIO>>} ELSE {})


(***************************************************************************)
(* Construction.                                                           *)
(***************************************************************************)
\* PublicVolume(dev_t device)
ConstructFromDevice ==
    /\ mJustPhysicalDev = FALSE
    /\ id = "public:" \o ToString(DevMajor) \o "," \o ToString(DevMinor)
    /\ mDevPath = "/dev/block/vold/" \o id

\* PublicVolume(const std::string& physicalDevName)
ConstructFromName ==
    \E n \in PhysicalDevNames :
        /\ mJustPhysicalDev = TRUE
        /\ id = n
        /\ mDevPath = "/dev/block/" \o id

Init ==
    /\ ConstructFromDevice \/ ConstructFromName
    /\ mFsType = "" /\ mFsUuid = "" /\ mFsLabel = ""
    /\ mRawPath = "" /\ mFuseDefault = "" /\ mFuseRead = "" /\ mFuseWrite = ""
    /\ mFusePid = 0
    /\ path = "" /\ internalPath = ""
    /\ mountFlags = [visible |-> FALSE, primary |-> FALSE]
    /\ vstate = "constructed"
    /\ pc = "idle" /\ before = 0 /\ stableName = "" /\ faults = 0
    /\ trace = <<>> /\ lastOp = "none" /\ lastStatus = OK
    /\ backend = NoBackend
    /\ procs = {} /\ mnts = {} /\ dirs = {}

(***************************************************************************)
(* The lifecycle calls.  The owner (VolumeBase) serializes them: one call  *)
(* in flight at a time, mount from an unmounted or failed-mount state,     *)
(* unmount from the mounted state.  doMount is modelled in the steps its   *)
(* code takes (pc says where it stands); nothing else of the volume runs   *)
(* between two steps of it.                                                *)
(***************************************************************************)
\* the fields a call wrote become the volume's
Commit(s) ==
    /\ mRawPath' = s.raw /\ mFuseDefault' = s.fdef
    /\ mFuseRead' = s.fread /\ mFuseWrite' = s.fwrite
    /\ path' = s.path /\ internalPath' = s.ipath
    /\ mFusePid' = s.pid
    /\ mFsType' = s.fsType /\ mFsUuid' = s.fsUuid /\ mFsLabel' = s.fsLabel
    /\ trace' = s.tr
    /\ mnts' = s.mnts /\ dirs' = s.dirs /\ procs' = s.procs

\* the external calls that may still fail in this behaviour
Left == MaxFaults - faults
Charge(n) == faults' = faults + n

\* the owner's state after mount returned the status
StateAfterMount(status) == IF status = OK THEN "mounted" ELSE "unmountable"

\* doMount returns
MountEnds(s) ==
    /\ Commit(s)
    /\ pc' = "idle" /\ before' = 0 /\ stableName' = ""
    /\ lastOp' = "mount" /\ lastStatus' = s.ret
    /\ vstate' = StateAfterMount(s.ret)
    /\ UNCHANGED <<ident, mountFlags>>

\* doMount goes on to its next step
MountGoes(s, next, sn) ==
    /\ Commit(s)
    /\ pc' = next /\ before' = 0 /\ stableName' = sn
    /\ lastOp' = "mount" /\ lastStatus' = OK
    /\ vstate' = "checking"
    /\ UNCHANGED <<ident, mountFlags>>

\* what the probe can answer; a failed probe reads nothing
Probes(n) ==
    {[r |-> OK, t |-> t, u |-> u, l |-> l] : t \in FsTypes, u \in FsUuids, l \in FsLabels}
    \cup (IF n > 0 THEN {[r |-> -EIO, t |-> "", u |-> "", l |-> ""]} ELSE {})

\* the owner's mount(): the state becomes "checking" and doMount is entered
Mount ==
    /\ pc = "idle"
    /\ vstate \in {"unmounted", "unmountable"}
    /\ trace' = <<>>
    /\ pc' = "probe"
    /\ lastOp' = "mount" /\ lastStatus' = OK
    /\ vstate' = "checking"
    /\ backend' = NoBackend
    /\ UNCHANGED <<ident, meta, paths, mFusePid, ownerPaths, mountFlags, before,
                   stableName, faults, os>>

\* lines 105-115: the probe and the validation of the type
MountProbe ==
    /\ pc = "probe"
    /\ \E pr \in Probes(Left) :
        LET s1 == ReadMetadata(Cur, pr.r, pr.t, pr.u, pr.l)
        IN  /\ Charge(IF pr.r # OK THEN 1 ELSE 0)
            /\ backend' = backend
            /\ IF ~Supported(s1.fsType)
               THEN MountEnds(Return(s1, UnsupportedStatus))
               ELSE MountGoes(s1, "check", "")

\* lines 117-132: the filesystem check
MountCheck ==
    /\ pc = "check"
    /\ \E c \in IF Left > 0 THEN Answers ELSE {"ok"} :
       \E iso \in IF mFsType = "hfs" /\ c = "fail" THEN Answers ELSE {"unasked"} :
        LET s1 == CheckFs(Cur, StatusOf(c))
        IN  /\ Charge(IF c = "fail" THEN 1 ELSE 0)
            /\ backend' = [backend EXCEPT !.check = c, !.iso = iso]
            /\ IF s1.done THEN MountEnds(s1) ELSE MountGoes(s1, "prepare", "")

\* lines 134-159: the paths are computed and the directories prepared
MountPrepare ==
    /\ pc = "prepare"
    /\ \E po \in PrepOracles(Left) :
        LET sn == StableNameOf(id, mFsUuid)
            s1 == ComputePaths(Cur, sn, mountFlags.visible)
            s2 == PrepareDirs(s1, po)
        IN  /\ Charge(PrepFaults(po))
            /\ backend' = backend
            /\ IF s2.done THEN MountEnds(s2) ELSE MountGoes(s2, "device", sn)

\* lines 161-197: the device is mounted
MountDevice ==
    /\ pc = "device"
    /\ \E e \in IF NeedsLogicalPartition(mJustPhysicalDev, mFsType) /\ Left > 0
                THEN {0, ENOENT} ELSE {0} :
        LET need == NeedsLogicalPartition(mJustPhysicalDev, mFsType)
            s1 == IF need THEN ResolveDevice(Cur, e) ELSE Cur
            dev == IF need THEN LogicalPartitionDevice ELSE mDevPath
        IN  IF s1.done
            THEN /\ Charge(1)
                 /\ backend' = backend
                 /\ MountEnds(s1)
            ELSE \E m \in IF Left > 0 THEN Answers ELSE {"ok"} :
                 \E iso \in IF mFsType = "hfs" /\ m = "fail" THEN Answers ELSE {"unasked"} :
                    LET s2 == MountStatusCheck(MountFs(s1, dev, StatusOf(m), StatusOf(iso)))
                    IN  /\ Charge(IF m = "fail" THEN 1 ELSE 0)
                        /\ backend' = [backend EXCEPT !.mount = m, !.iso = iso]
                        /\ IF s2.done
                           THEN MountEnds(s2)
                           ELSE MountGoes(s2, "stage", stableName)

\* lines 199-206: the secure area is staged; a volume that is not visible
\* is mounted now
MountStage ==
    /\ pc = "stage"
    /\ \E ao \in IF mountFlags.primary
                 THEN {o \in AsecOracles : AsecFault(o) => Left > 0}
                 ELSE {CHOOSE o \in AsecOracles : ~AsecFault(o)} :
        LET s1 == StageAsec(Cur, mountFlags.primary, ao)
        IN  /\ Charge(IF mountFlags.primary /\ AsecFault(ao) THEN 1 ELSE 0)
            /\ backend' = backend
            /\ IF ~SpinsUpFuse(mountFlags)
               THEN MountEnds(Return(s1, OK))
               ELSE MountGoes(s1, "fork", stableName)

\* lines 208-241: the baseline is read and the sandbox forked
MountFork ==
    /\ pc = "fork"
    /\ \E f \in IF Left > 0 THEN {0, EAGAIN} ELSE {0} :
        LET s1 == ReadBaseline(Cur)
            s2 == Fork(s1, mountFlags.primary, stableName, f)
        IN  /\ Charge(IF f # 0 THEN 1 ELSE 0)
            /\ backend' = backend
            /\ IF s2.done
               THEN MountEnds(s2)
               ELSE /\ Commit(s2)
                    /\ pc' = "poll" /\ before' = GetDevice(mnts, mFuseWrite)
                    /\ stableName' = stableName
                    /\ UNCHANGED <<ident, mountFlags, lastOp, lastStatus, vstate>>

\* "while (before == GetDevice(mFuseWrite)) usleep(50000)": one more round
PollSleep ==
    /\ pc = "poll"
    /\ before = GetDevice(mnts, mFuseWrite)
    /\ UNCHANGED vars

\* a poll that gives up without the device id having changed
PollDone_GivesUp(b, d) == TRUE

\* whether the readiness poll ends: b is the baseline, d the device id now
PollDone(b, d) == b # d

\* the poll sees another device id and doMount returns OK
PollReturn ==
    /\ pc = "poll"
    /\ PollDone(before, GetDevice(mnts, mFuseWrite))
    /\ pc' = "idle" /\ before' = 0 /\ stableName' = ""
    /\ trace' = Append(trace, Ev("GetDevice", mFuseWrite, "", GetDevice(mnts, mFuseWrite)))
    /\ lastStatus' = OK
    /\ vstate' = StateAfterMount(OK)
    /\ UNCHANGED <<ident, meta, paths, mFusePid, ownerPaths, mountFlags, lastOp,
                   backend, faults, os>>

\* the child's execl fails: it logs and _exit(1)s, and stays un-reaped
ChildExecFails ==
    /\ Left > 0
    /\ \E c \in procs :
        /\ c.st = "forked"
        /\ procs' = (procs \ {c}) \cup {[c EXCEPT !.st = "exited"]}
    /\ Charge(1)
    /\ UNCHANGED <<ident, meta, paths, mFusePid, ownerPaths, mountFlags, vstate,
                   pc, before, stableName, trace, lastOp, lastStatus, backend, mnts, dirs>>

\* the sandbox executable runs and mounts its three views
ChildMountsViews ==
    /\ \E c \in procs :
        /\ c.st = "forked"
        /\ LET sn == c.argv[Len(c.argv)]
               m1 == DoMountAt(mnts, "/mnt/runtime/default/" \o sn)
               m2 == DoMountAt(m1, "/mnt/runtime/read/" \o sn)
           IN  mnts' = DoMountAt(m2, "/mnt/runtime/write/" \o sn)
        /\ procs' = (procs \ {c}) \cup {[c EXCEPT !.st = "serving"]}
    /\ UNCHANGED <<ident, meta, paths, mFusePid, ownerPaths, mountFlags, vstate,
                   pc, before, stableName, faults, trace, lastOp, lastStatus, backend, dirs>>

\* the statuses kill and waitpid can return together
KillOutcomes(n) == {<<0, 0>>} \cup (IF n > 0 THEN {<<-1, 0>>, <<0, -1>>, <<-1, -1>>} ELSE {})

\* doUnmount
DoUnmount ==
    /\ pc = "idle"
    /\ vstate = "mounted"
    /\ \E kw \in IF mFusePid > 0 THEN KillOutcomes(Left) ELSE {<<0, 0>>} :
       \E stuck \in StuckSets(Cur, IF kw = <<0, 0>> THEN Left ELSE Left - 1) :
        LET s1 == DoUnmountBody(Enter, kw[1], kw[2], stuck)
        IN  /\ Commit(s1)
            /\ lastStatus' = s1.ret
            /\ Charge((IF kw = <<0, 0>> THEN 0 ELSE 1) + Cardinality(stuck))
    /\ lastOp' = "unmount"
    /\ vstate' = "unmounted"
    /\ UNCHANGED <<ident, mountFlags, pc, before, stableName, backend>>

\* the statuses the device-node calls can return
NodeOutcomes(n) == {OK} \cup (IF n > 0 THEN {-EACCES} ELSE {})

\* doCreate
DoCreate ==
    /\ pc = "idle"
    /\ vstate = "constructed"
    /\ \E r \in IF mJustPhysicalDev THEN {OK} ELSE NodeOutcomes(Left) :
        LET s1 == DoCreateBody(Enter, r)
        IN  /\ Commit(s1)
            /\ lastStatus' = s1.ret
            /\ Charge(IF r # OK THEN 1 ELSE 0)
    /\ lastOp' = "create"
    /\ vstate' = "unmounted"
    /\ UNCHANGED <<ident, mountFlags, pc, before, stableName, backend>>

\* doDestroy
DoDestroy ==
    /\ pc = "idle"
    /\ vstate \in {"unmounted", "unmountable"}
    /\ \E r \in IF mJustPhysicalDev THEN {OK} ELSE NodeOutcomes(Left) :
        LET s1 == DoDestroyBody(Enter, r)
        IN  /\ Commit(s1)
            /\ lastStatus' = s1.ret
            /\ Charge(IF r # OK THEN 1 ELSE 0)
    /\ lastOp' = "destroy"
    /\ vstate' = "discarded"
    /\ UNCHANGED <<ident, mountFlags, pc, before, stableName, backend>>

\* format(fsType) on the unmounted volume: doFormat, after which the owner's
\* state is unmounted again
DoFormat ==
    /\ pc = "idle"
    /\ vstate = "unmounted"
    /\ \E t \in FormatTypes :
       \E o \in IF t \in {"vfat", "auto"} THEN FormatOutcomes(Left) ELSE {<<OK, 0>>} :
        LET s1 == DoFormatBody(Enter, t, o[1], o[2])
        IN  /\ Commit(s1)
            /\ lastStatus' = s1.ret
            /\ Charge(IF o = <<OK, 0>> THEN 0 ELSE 1)
    /\ lastOp' = "format"
    /\ vstate' = "unmounted"
    /\ UNCHANGED <<ident, mountFlags, pc, before, stableName, backend>>

\* the owner sets the flags of the next mount
SetMountFlags ==
    /\ pc = "idle"
    /\ vstate \in {"unmounted", "unmountable"}
    /\ \E v \in BOOLEAN, p \in BOOLEAN :
        /\ mountFlags' = [visible |-> v, primary |-> p]
        /\ mountFlags' # mountFlags
    /\ trace' = <<>>
    /\ lastOp' = "setMountFlags" /\ lastStatus' = OK
    /\ backend' = NoBackend
    /\ UNCHANGED <<ident, meta, paths, mFusePid, ownerPaths, vstate, pc, before,
                   stableName, faults, os>>

Next ==
    \/ DoCreate
    \/ DoDestroy
    \/ DoFormat
    \/ SetMountFlags
    \/ Mount
    \/ MountProbe
    \/ MountCheck
    \/ MountPrepare
    \/ MountDevice
    \/ MountStage
    \/ MountFork
    \/ PollSleep
    \/ PollReturn
    \/ ChildExecFails
    \/ ChildMountsViews
    \/ DoUnmount

Spec == Init /\ [][Next]_vars

\* the calling thread keeps running its poll loop
FairSpec == Spec /\ WF_vars(PollReturn)

(***************************************************************************)
(* Properties.                                                             *)
(***************************************************************************)
Idle == pc = "idle"
Returned(op) == pc = "idle" /\ lastOp = op
PathsSet == mRawPath # "" /\ mFuseDefault # "" /\ mFuseRead # "" /\ mFuseWrite # ""
PathsEmpty == mRawPath = "" /\ mFuseDefault = "" /\ mFuseRead = "" /\ mFuseWrite = ""
ForkFailed == \E k \in Calls("fork") : trace[k].res = -1

\* C1: between lifecycle calls the four derived paths are non-empty exactly
\* while the volume is mounted (a mount succeeded and no unmount followed),
\* and after a mount that returned a failure status the four paths and the
\* external path are empty.
C1_PathsIffMounted ==
    Idle =>
        /\ PathsSet <=> vstate = "mounted"
        /\ PathsEmpty <=> vstate # "mounted"
        /\ (lastOp = "mount" /\ lastStatus # OK) => (PathsEmpty /\ path = "")

\* C2: when unmount has returned, the four derived paths are empty and
\* mFusePid is zero.
C2_AfterUnmount ==
    Returned("unmount") => (PathsEmpty /\ mFusePid = 0)

\* C3: a mount that returned OK has derived the raw path, the three view
\* paths and the external path from the stable name, which is the probed UUID
\* when that is non-empty and the id otherwise.
C3_MountPaths ==
    (Returned("mount") /\ lastStatus = OK) =>
        LET sn == IF mFsUuid # "" THEN mFsUuid ELSE id
        IN  /\ mFsType \in {"vfat", "ntfs", "exfat", "hfs"}
            /\ mRawPath = "/mnt/media_rw/" \o sn
            /\ mFuseDefault = "/mnt/runtime/default/" \o sn
            /\ mFuseRead = "/mnt/runtime/read/" \o sn
            /\ mFuseWrite = "/mnt/runtime/write/" \o sn
            /\ internalPath = mRawPath
            /\ path = IF mountFlags.visible THEN "/storage/" \o sn ELSE mRawPath

C3_Witness ==
    /\ Returned("mount") /\ lastStatus = OK
    /\ mFsUuid = "1234-ABCD" /\ mountFlags.visible
    /\ path = "/storage/1234-ABCD" /\ mRawPath = "/mnt/media_rw/1234-ABCD"

\* C4: when the probe reports a type outside {vfat, ntfs, exfat, hfs}, doMount
\* returns a failure status right after the probe: the only calls it made are
\* the probe and its notifications, and no path field, mount, directory or
\* child is touched.
C4_UnsupportedType ==
    [][(pc = "probe" /\ mFsType' \notin {"vfat", "ntfs", "exfat", "hfs"}) =>
            /\ pc' = "idle" /\ lastOp' = "mount" /\ lastStatus' # OK
            /\ \A k \in 1..Len(trace') :
                    trace'[k].op \in {"ReadMetadataUntrusted", "notifyEvent"}
            /\ UNCHANGED <<mRawPath, mFuseDefault, mFuseRead, mFuseWrite, path,
                           internalPath, mFusePid, mnts, dirs, procs>>]_vars

C4_Witness ==
    /\ Returned("mount") /\ lastStatus # OK
    /\ mFsType = "ext4"
    /\ Len(trace) = 4

\* C5 as stated: for an hfs volume, if the hfs+ check or the hfs+ mount fails
\* and the iso9660 mount of the device succeeds, mount returns OK (unless the
\* fork failed); if both mount attempts fail, mount returns -EIO.
C5_AsStated ==
    (Returned("mount") /\ mFsType = "hfs") =>
        /\ ((backend.check = "fail" \/ backend.mount = "fail") /\ backend.iso = "ok"
            /\ ~ForkFailed) => lastStatus = OK
        /\ (backend.mount = "fail" /\ backend.iso = "fail") => lastStatus = -EIO

\* C5 amended: for an hfs volume, a failed hfs+ check makes mount return -EIO
\* with neither an hfs+ nor an iso9660 mount attempted; after a passed check, a
\* failed hfs+ mount followed by a successful iso9660 mount makes mount return
\* OK (unless the fork failed), and the failure of both makes it return -EIO.
C5_HfsFallback ==
    (Returned("mount") /\ mFsType = "hfs") =>
        /\ backend.check = "fail" =>
            /\ lastStatus = -EIO
            /\ Calls("hfsplus::Mount") = {} /\ Calls("iso9660::Mount") = {}
        /\ (backend.check = "ok" /\ backend.mount = "fail" /\ backend.iso = "ok"
            /\ ~ForkFailed) => lastStatus = OK
        /\ (backend.mount = "fail" /\ backend.iso = "fail") => lastStatus = -EIO
        /\ \A k \in Calls("iso9660::Mount") :
                (trace[k].res = 0 /\ ~ForkFailed) <=> lastStatus = OK

C5_Witness ==
    /\ Returned("mount") /\ mFsType = "hfs" /\ lastStatus = OK
    /\ backend.check = "ok" /\ backend.mount = "fail" /\ backend.iso = "ok"
    /\ \E k \in Calls("iso9660::Mount") : trace[k].res = 0

\* C6: in one mount call iso9660::Mount is called at most once, only for type
\* hfs and only right after an hfsplus::Mount that returned non-zero; when
\* hfsplus::Mount returned zero, iso9660::Mount is not called and the call
\* does not return the mount failure -EIO.
C6_IsoOnlyAfterHfsFailure ==
    lastOp = "mount" =>
        /\ Cardinality(Calls("iso9660::Mount")) <= 1
        /\ \A k \in Calls("iso9660::Mount") :
                /\ mFsType = "hfs"
                /\ k > 1 /\ trace[k - 1].op = "hfsplus::Mount" /\ trace[k - 1].res # 0
                /\ trace[k].a = trace[k - 1].a /\ trace[k].b = trace[k - 1].b
        /\ \A k \in Calls("hfsplus::Mount") :
                trace[k].res = 0 =>
                    /\ Calls("iso9660::Mount") = {}
                    /\ Idle => lastStatus # -EIO

C6_Witness ==
    /\ Returned("mount") /\ lastStatus = OK /\ mFsType = "hfs"
    /\ \E k \in Calls("hfsplus::Mount") : trace[k].res = 0
    /\ Calls("iso9660::Mount") = {}

\* C7: doUnmount on a volume with a sandbox (mFusePid > 0) first kills and
\* waits for the child; then, on every call and whatever the earlier steps
\* returned, it force-unmounts the secure area, the three views and then the
\* raw path, removes the four directories, clears the four paths, and returns
\* OK.
C7_UnmountOrder ==
    [][(pc = "idle" /\ vstate = "mounted" /\ lastOp' = "unmount") =>
        LET n == IF mFusePid > 0 THEN 2 ELSE 0
            isCall(k, op, a) == trace'[k].op = op /\ trace'[k].a = a
        IN  /\ Len(trace') = n + 9
            /\ mFusePid > 0 =>
                /\ isCall(1, "kill", ToString(mFusePid)) /\ trace'[1].b = "SIGTERM"
                /\ isCall(2, "waitpid", ToString(mFusePid))
                /\ mFusePid' = 0
                /\ \A c \in procs' : c.pid # mFusePid
            /\ isCall(n + 1, "ForceUnmount", kAsecPath)
            /\ isCall(n + 2, "ForceUnmount", mFuseDefault)
            /\ isCall(n + 3, "ForceUnmount", mFuseRead)
            /\ isCall(n + 4, "ForceUnmount", mFuseWrite)
            /\ isCall(n + 5, "ForceUnmount", mRawPath)
            /\ isCall(n + 6, "rmdir", mFuseDefault)
            /\ isCall(n + 7, "rmdir", mFuseRead)
            /\ isCall(n + 8, "rmdir", mFuseWrite)
            /\ isCall(n + 9, "rmdir", mRawPath)
            /\ mRawPath # "" /\ mFuseWrite # ""
            /\ PathsEmpty'
            /\ pc' = "idle" /\ lastStatus' = OK]_vars

C7_Witness ==
    /\ Returned("unmount") /\ lastStatus = OK
    /\ Calls("kill") # {} /\ Calls("waitpid") # {}
    /\ \E k \in Calls("ForceUnmount") : trace[k].res # 0
    /\ Len(trace) = 11

\* the prepareDir calls of the latest mount call, by their path
PreparedPaths == {trace[k].a : k \in Calls("prepareDir")}
FirstOf(S) == CHOOSE k \in S : \A j \in S : k <= j
LastOf(S) == CHOOSE k \in S : \A j \in S : j <= k
PrepareStatus(p) == trace[FirstOf(CallsOn("prepareDir", p))].res

\* what holds of every prepareDir call: at most two creation attempts; a
\* first attempt that succeeds or fails with another errno than ENOTCONN is
\* the only call made; ENOTCONN is followed by one umount2(path, MNT_DETACH)
PrepareDirShape(p) ==
    LET mk == CallsOn("fs_prepare_dir", p)
        um == CallsOn("umount2", p)
        first == trace[FirstOf(mk)].res
    IN  /\ Cardinality(mk) \in {1, 2}
        /\ Cardinality(CallsOn("prepareDir", p)) = 1
        /\ first = 0 => (Cardinality(mk) = 1 /\ um = {} /\ PrepareStatus(p) = OK)
        /\ first \notin {0, -ENOTCONN} =>
                (Cardinality(mk) = 1 /\ um = {} /\ PrepareStatus(p) # OK)
        /\ first = -ENOTCONN =>
                /\ Cardinality(um) = 1
                /\ FirstOf(mk) < FirstOf(um)
                /\ trace[FirstOf(um)].b = "MNT_DETACH"
                /\ \A k \in mk : k # FirstOf(mk) => FirstOf(um) < k

\* C8 as stated: after ENOTCONN and the lazy umount, creation is retried
\* exactly once whatever umount2 returned, and prepareDir succeeds iff the
\* retry does.
C8_AsStated ==
    lastOp = "mount" =>
        \A p \in PreparedPaths :
            /\ PrepareDirShape(p)
            /\ trace[FirstOf(CallsOn("fs_prepare_dir", p))].res = -ENOTCONN =>
                /\ Cardinality(CallsOn("fs_prepare_dir", p)) = 2
                /\ PrepareStatus(p) = OK <=> trace[LastOf(CallsOn("fs_prepare_dir", p))].res = 0

\* C8 amended: after ENOTCONN and the lazy umount, creation is retried exactly
\* once when umount2 succeeded or failed with EINVAL or ENOENT, and prepareDir
\* then succeeds iff the retry does; after any other umount2 failure
\* prepareDir fails without a retry.
C8_PrepareDirRetry ==
    lastOp = "mount" =>
        \A p \in PreparedPaths :
            /\ PrepareDirShape(p)
            /\ trace[FirstOf(CallsOn("fs_prepare_dir", p))].res = -ENOTCONN =>
                LET mk == CallsOn("fs_prepare_dir", p)
                    u == trace[FirstOf(CallsOn("umount2", p))].res
                IN  IF u \in {0, -EINVAL, -ENOENT}
                    THEN /\ Cardinality(mk) = 2
                         /\ PrepareStatus(p) = OK <=> trace[LastOf(mk)].res = 0
                    ELSE /\ Cardinality(mk) = 1
                         /\ PrepareStatus(p) # OK

C8_Witness ==
    /\ Returned("mount") /\ lastStatus = OK
    /\ \E p \in PreparedPaths :
        /\ Cardinality(CallsOn("fs_prepare_dir", p)) = 2
        /\ trace[FirstOf(CallsOn("umount2", p))].res = -EINVAL
        /\ PrepareStatus(p) = OK

\* the poll can never end: the child is gone and the device id is the baseline
StuckPoll ==
    /\ pc = "poll"
    /\ before = GetDevice(mnts, mFuseWrite)
    /\ \A c \in procs : c.pid = mFusePid => c.st = "exited"

\* C9: the readiness poll is left only when the write view's device id
\* differs from the baseline, and then doMount returns OK; once the child has
\* exited without mounting its views the poll is never left, even though the
\* polling thread is scheduled fairly; and once the device id differs from
\* the baseline, doMount eventually returns OK.
C9_PollBlocks ==
    /\ [][(pc = "poll" /\ pc' # "poll") =>
            /\ GetDevice(mnts, mFuseWrite) # before
            /\ pc' = "idle" /\ lastOp' = "mount" /\ lastStatus' = OK]_vars
    /\ [][StuckPoll => StuckPoll']_vars
    /\ (pc = "poll" /\ GetDevice(mnts, mFuseWrite) # before)
            ~> (Returned("mount") /\ lastStatus = OK)

C9_Witness == StuckPoll /\ mountFlags.visible /\ mFusePid > 0

\* C10: create and destroy of a bare-device volume return 0 without a device
\* node call; of another volume they make exactly one CreateDeviceNode,
\* respectively DestroyDeviceNode, call on the device path and return its
\* status.
C10_DeviceNode ==
    /\ Returned("create") =>
        IF mJustPhysicalDev
        THEN trace = <<>> /\ lastStatus = 0
        ELSE /\ Len(trace) = 1
             /\ trace[1].op = "CreateDeviceNode" /\ trace[1].a = mDevPath
             /\ lastStatus = trace[1].res
    /\ Returned("destroy") =>
        IF mJustPhysicalDev
        THEN trace = <<>> /\ lastStatus = 0
        ELSE /\ Len(trace) = 1
             /\ trace[1].op = "DestroyDeviceNode" /\ trace[1].a = mDevPath
             /\ lastStatus = trace[1].res

C10_Witness ==
    /\ Returned("destroy") /\ ~mJustPhysicalDev
    /\ lastStatus # OK /\ Len(trace) = 1

\* C11: a format requested with "vfat" or "auto" wipes the device and then
\* formats it as vfat, in that order and whatever the wipe returned; it fails
\* exactly when the format fails; a format requested with another type
\* returns -EINVAL and calls neither the wipe nor the format.
C11_Format ==
    Returned("format") =>
        LET req == trace[Len(trace)]
        IN  /\ req.op = "doFormat" /\ req.res = lastStatus
            /\ IF req.a \in {"vfat", "auto"}
               THEN /\ Len(trace) = 3
                    /\ trace[1].op = "WipeBlockDevice" /\ trace[1].a = mDevPath
                    /\ trace[2].op = "vfat::Format" /\ trace[2].a = mDevPath
                    /\ lastStatus # OK <=> trace[2].res # 0
               ELSE /\ lastStatus = -EINVAL
                    /\ Calls("WipeBlockDevice") = {} /\ Calls("vfat::Format") = {}

C11_Witness ==
    /\ Returned("format") /\ lastStatus = OK
    /\ \E k \in Calls("WipeBlockDevice") : trace[k].res # OK
    /\ \E k \in Calls("vfat::Format") : trace[k].res = 0

\* C12: between lifecycle calls mFusePid is zero when no sandbox child is
\* running, and it is positive exactly when a child was forked and is not yet
\* reaped (also after a fork failure, a mount without sandbox, an unmount).
C12_SandboxPid ==
    Idle =>
        /\ (\A c \in procs : c.st = "exited") => mFusePid = 0
        /\ mFusePid > 0 <=> \E c \in procs : c.pid = mFusePid

\* the calls of the latest mount call that are backend mounts, the calls of
\* initAsecStage, and the failed ones among the calls with the given name
BackendMounts ==
    {k \in 1..Len(trace) : trace[k].op \in {"vfat::Mount", "ntfs::Mount", "exfat::Mount",
                                             "hfsplus::Mount", "iso9660::Mount"}}
BackendChecks ==
    {k \in 1..Len(trace) : trace[k].op \in {"vfat::Check", "ntfs::Check", "exfat::Check",
                                             "hfsplus::Check"}}
AsecCalls ==
    {k \in 1..Len(trace) : trace[k].op \in {"access", "rename", "mkdir", "BindMount"}}
Failed(S) == {k \in S : trace[k].res # 0}

\* C13: when mount has returned, a failed check means -EIO with no directory
\* prepared and no backend mount; a failed prepareDir is the last one of the
\* chain and is followed by neither the logical-partition resolution nor a
\* backend mount; a failed resolution is followed by no backend mount; a
\* non-zero final mount status means -EIO with no staging and no fork; a
\* failed fork is the last call (the poll is not entered); and in each of
\* these cases the status is not OK.
C13_ShortCircuit ==
    Returned("mount") =>
        /\ Failed(BackendChecks) # {} =>
            /\ lastStatus = -EIO
            /\ Calls("prepareDir") = {} /\ Calls("fs_prepare_dir") = {}
            /\ BackendMounts = {}
        /\ Failed(Calls("prepareDir")) # {} =>
            /\ lastStatus # OK
            /\ Failed(Calls("prepareDir")) = {LastOf(Calls("prepareDir"))}
            /\ LastOf(Calls("prepareDir")) = Len(trace)
            /\ Calls("GetLogicalPartitionDevice") = {} /\ BackendMounts = {}
        /\ Failed(Calls("GetLogicalPartitionDevice")) # {} =>
            /\ lastStatus # OK
            /\ BackendMounts = {}
        /\ (BackendMounts # {} /\ trace[LastOf(BackendMounts)].res # 0) =>
            /\ lastStatus = -EIO
            /\ AsecCalls = {} /\ Calls("fork") = {} /\ Calls("GetDevice") = {}
        /\ ForkFailed =>
            /\ lastStatus # OK
            /\ trace[Len(trace)].op = "fork"
            /\ Cardinality(Calls("GetDevice")) = 1

C13_Witness ==
    /\ Returned("mount") /\ lastStatus # OK
    /\ Cardinality(Calls("prepareDir")) = 2
    /\ Failed(Calls("prepareDir")) # {}
    /\ BackendMounts = {}

\* C14: the status mount returns for an unsupported type differs from the
\* status it returns for a failed check and a failed final mount.
C14_UnsupportedDistinct ==
    Returned("mount") =>
        /\ (Failed(BackendChecks) # {}) => lastStatus = IoFailure
        /\ (BackendMounts # {} /\ trace[LastOf(BackendMounts)].res # 0) => lastStatus = IoFailure
        /\ ~Supported(mFsType) => (lastStatus # OK /\ lastStatus # IoFailure)

\* C15: a mount of a visible volume that returned OK read the device id of
\* the write view before the fork and last read a device id that differs
\* from that baseline; a mount of a volume that is not visible returns OK
\* without a fork and without reading the device id; and no step of doMount
\* before the fork changes mFusePid.
C15_BaselineBeforeFork ==
    /\ [](Returned("mount") /\ lastStatus = OK =>
            IF mountFlags.visible
            THEN /\ Cardinality(Calls("fork")) = 1
                 /\ Cardinality(Calls("GetDevice")) = 2
                 /\ FirstOf(Calls("GetDevice")) < FirstOf(Calls("fork"))
                 /\ FirstOf(Calls("fork")) < LastOf(Calls("GetDevice"))
                 /\ LastOf(Calls("GetDevice")) = Len(trace)
                 /\ \A k \in Calls("GetDevice") : trace[k].a = mFuseWrite
                 /\ trace[LastOf(Calls("GetDevice"))].res
                        # trace[FirstOf(Calls("GetDevice"))].res
                 /\ GetDevice(mnts, mFuseWrite) = trace[Len(trace)].res
            ELSE Calls("fork") = {} /\ Calls("GetDevice") = {})
    /\ [][(pc \in {"probe", "check", "prepare", "device", "stage"}) =>
            (mFusePid' = mFusePid /\ procs' = procs)]_vars
    /\ [][(pc = "fork" /\ pc' = "poll") =>
            /\ before' = GetDevice(mnts, mFuseWrite)
            /\ \A c \in procs : c.pid # mFusePid']_vars

C15_Witness ==
    /\ Returned("mount") /\ lastStatus = OK /\ mountFlags.visible
    /\ Cardinality(Calls("GetDevice")) = 2
    /\ trace[Len(trace)].res # 0 /\ mFusePid > 0

\* C16: every backend mount of a mount call has the raw path as its target;
\* its device is the resolved logical partition when the type is ntfs or
\* exfat and the volume is not a bare device, and mDevPath otherwise; the
\* logical partition is resolved, once and before the backend mount, exactly
\* in the first case.
C16_MountDevice ==
    (lastOp = "mount" /\ pc \notin {"probe", "check", "prepare", "device"}
     /\ BackendMounts # {}) =>
        LET logical == (~mJustPhysicalDev) /\ mFsType \in {"ntfs", "exfat"}
            res == Calls("GetLogicalPartitionDevice")
        IN  /\ \A k \in BackendMounts :
                /\ trace[k].b = mRawPath
                /\ trace[k].a = IF logical THEN LogicalPartitionDevice ELSE mDevPath
                /\ \A j \in res : j < k /\ trace[j].res = OK
            /\ IF logical THEN Cardinality(res) = 1 ELSE res = {}

C16_Witness ==
    /\ Returned("mount") /\ lastStatus = OK
    /\ ~mJustPhysicalDev /\ mFsType = "exfat"
    /\ \E k \in Calls("exfat::Mount") : trace[k].a = LogicalPartitionDevice
    /\ Calls("GetLogicalPartitionDevice") # {}

\* C17: when mount has returned after a successful backend mount,
\* initAsecStage ran exactly if the volume is primary and fork was called
\* exactly if it is visible; whatever initAsecStage met, the status is OK
\* unless the fork failed; and the child was given -w exactly if the volume
\* is primary, followed by the raw path and the stable name of the paths.
C17_StageAndSandbox ==
    (Returned("mount") /\ BackendMounts # {} /\ trace[LastOf(BackendMounts)].res = 0) =>
        LET sn == IF mFsUuid # "" THEN mFsUuid ELSE id
        IN  /\ AsecCalls # {} <=> mountFlags.primary
            /\ \A k \in AsecCalls : LastOf(BackendMounts) < k
            /\ Calls("fork") # {} <=> mountFlags.visible
            /\ \A k \in Calls("fork") : \A j \in AsecCalls : j < k
            /\ lastStatus = OK <=> ~ForkFailed
            /\ (mountFlags.visible /\ ~ForkFailed) =>
                \E c \in procs :
                    /\ c.pid = mFusePid /\ mFusePid = trace[FirstOf(Calls("fork"))].res
                    /\ c.argv[1] = kFusePath
                    /\ (\E i \in 1..Len(c.argv) : c.argv[i] = "-w") <=> mountFlags.primary
                    /\ c.argv[Len(c.argv) - 1] = mRawPath
                    /\ c.argv[Len(c.argv)] = sn
                    /\ mRawPath = "/mnt/media_rw/" \o sn

C17_Witness ==
    /\ Returned("mount") /\ lastStatus = OK
    /\ mountFlags.primary /\ mountFlags.visible
    /\ \E k \in Calls("mkdir") : trace[k].res # 0
    /\ Calls("BindMount") = {}
    /\ \E c \in procs : c.pid = mFusePid /\ c.argv[8] = "-w"

\* C18: a mount call begins with one probe followed by the notifications of
\* the type, the UUID and the label, in this order and with the values the
\* probe left in the fields, whatever the probe returned; the call makes no
\* other probe and sends no other notification, also when it fails.
C18_ProbeNotifies ==
    (lastOp = "mount" /\ pc # "probe") =>
        /\ Len(trace) >= 4
        /\ Calls("ReadMetadataUntrusted") = {1} /\ trace[1].a = mDevPath
        /\ Calls("notifyEvent") = {2, 3, 4}
        /\ trace[2].a = "VolumeFsTypeChanged" /\ trace[2].b = mFsType
        /\ trace[3].a = "VolumeFsUuidChanged" /\ trace[3].b = mFsUuid
        /\ trace[4].a = "VolumeFsLabelChanged" /\ trace[4].b = mFsLabel
        /\ (Idle /\ ~Supported(mFsType)) => (Len(trace) = 4 /\ lastStatus # OK)

C18_Witness ==
    /\ Returned("mount") /\ lastStatus # OK
    /\ trace[1].op = "ReadMetadataUntrusted" /\ trace[1].res # OK
    /\ Cardinality(Calls("notifyEvent")) = 3

\* C19: when mount has returned a failure status, what a backend mount of
\* the call mounted at the raw path is no longer mounted; and when unmount
\* has returned, no directory of the volume remains except one that a
\* filesystem is still mounted on.
C19_NoLeftovers ==
    /\ (Returned("mount") /\ lastStatus # OK) =>
            \A k \in BackendMounts : trace[k].res = 0 => ~Mounted(mnts, trace[k].b)
    /\ Returned("unmount") => \A p \in dirs : Mounted(mnts, p)

\* the ids of the children that are not reaped
Pids(ps) == {c.pid : c \in ps}

\* C20: there is never more than one un-reaped child; a child is forked only
\* when there is none; mFusePid changes only when it is not the id of an
\* un-reaped child, or in an unmount that sends SIGTERM to that child and
\* waits for it; and when unmount has returned no child is left.
C20_OneChild ==
    /\ [](Cardinality(procs) <= 1)
    /\ [](Returned("unmount") => procs = {})
    /\ [][(Pids(procs') \ Pids(procs) # {}) => procs = {}]_vars
    /\ [][(mFusePid' # mFusePid) =>
            \/ mFusePid \notin Pids(procs)
            \/ /\ lastOp' = "unmount" /\ mFusePid' = 0
               /\ trace'[1].op = "kill" /\ trace'[1].a = ToString(mFusePid)
               /\ trace'[1].b = "SIGTERM"
               /\ trace'[2].op = "waitpid" /\ trace'[2].a = ToString(mFusePid)
               /\ mFusePid \notin Pids(procs')]_vars

C20_Witness ==
    /\ Returned("unmount") /\ mFusePid = 0 /\ procs = {}
    /\ Calls("waitpid") = {2} /\ trace[2].res = 0
    /\ mountFlags.visible

====
